---- MODULE Spec2Model ----
(***************************************************************************)
(* A model of server/utils/tcp_handler.py (class TCPHandler): the TCP      *)
(* connection broker of the IoT server.  The state is the handler          *)
(* object's fields, the sockets it owns, and the position of every thread  *)
(* it starts (acceptor, health check, one reader per accepted socket),     *)
(* plus the application threads calling start/stop/send_message.  Every    *)
(* action is one lock-delimited step of the Python code.                   *)
(***************************************************************************)
EXTENDS Integers, Sequences, FiniteSets, TLC

(***************************************************************************)
(* Bounds of the model.                                                    *)
(***************************************************************************)
MaxSocks == 2     \* connections accepted in one run
MaxBytes == 4     \* bytes one peer sends on one connection
MaxStarts == 1    \* successful start() calls in one run
MaxSends == 2     \* send_message calls in one run
MaxTicks == 2     \* clock advances in one run

(***************************************************************************)
(* Program constants.                                                      *)
(***************************************************************************)
NL == 10                      \* b'\n'
RecvSize == 1024              \* client_socket.recv(1024)
Timeout == 600                \* _cleanup_inactive_clients(timeout=600)
health_check_interval == 60   \* self.health_check_interval

None == "None"

\* DEVICE_ID_MAPPING: raw tag -> canonical device id
DEVICE_ID_MAPPING ==
  [t \in {"S", "H", "G"} |->
     CASE t = "S" -> "sort_controller"
       [] t = "H" -> "env_controller"
       [] t = "G" -> "access_controller"]

\* DEVICE_ID_MAPPING.get(device_type, device_type)
MappedDeviceId(device_type) ==
  IF device_type \in DOMAIN DEVICE_ID_MAPPING
  THEN DEVICE_ID_MAPPING[device_type] ELSE device_type

\* CONFIG['AUTO_DEVICE_MAPPING']: peer ip -> device id, read once in __init__.
\* The configuration modelled pre-registers one of the two peer hosts.
auto_device_mapping == [ip \in {"ip1"} |-> "sort_controller"]

\* The peers that may connect: (ip, port), one port on each of two hosts.
Addresses == {<<"ip1", "p1">>, <<"ip2", "p1">>}

\* client_id = f"{address[0]}:{address[1]}": one id per (ip, port).
ClientId(address) == address[1] \o ":" \o address[2]

(***************************************************************************)
(* Bytes and text.  A byte is a number; a decoded character is a string.   *)
(***************************************************************************)
Range(s) == {s[i] : i \in 1..Len(s)}

\* The characters the model's bytes decode to.
Chr(b) ==
  CASE b = 10 -> "\n"
    [] b = 49 -> "1"
    [] b = 67 -> "C"
    [] b = 69 -> "E"
    [] b = 82 -> "R"
    [] b = 83 -> "S"
    [] b = 88 -> "X"
    [] OTHER -> "?"

\* str.encode('utf-8') of one character of the model's commands.
Ord(c) ==
  CASE c = "\n" -> 10
    [] c = "1" -> 49
    [] c = "C" -> 67
    [] c = "E" -> 69
    [] c = "R" -> 82
    [] c = "S" -> 83
    [] c = "X" -> 88
    [] OTHER -> 63

\* bytes.decode('utf-8') on the byte values of the model: ASCII bytes are one
\* character each; 0xC3 followed by a continuation byte (0x80..0xBF) is one
\* two-byte character; any other byte >= 0x80 is a UnicodeDecodeError.
RECURSIVE Utf8Decode(_)
Utf8Decode(bytes) ==
  IF bytes = <<>> THEN [ok |-> TRUE, text |-> <<>>]
  ELSE IF Head(bytes) < 128
  THEN LET r == Utf8Decode(Tail(bytes))
       IN [ok |-> r.ok, text |-> IF r.ok THEN <<Chr(Head(bytes))>> \o r.text ELSE <<>>]
  ELSE IF Head(bytes) = 195 /\ Len(bytes) >= 2 /\ bytes[2] >= 128 /\ bytes[2] <= 191
  THEN LET r == Utf8Decode(Tail(Tail(bytes)))
       IN [ok |-> r.ok, text |-> IF r.ok THEN <<"U+00E9">> \o r.text ELSE <<>>]
  ELSE [ok |-> FALSE, text |-> <<>>]

\* str.encode('utf-8') of an ASCII command
Utf8Encode(text) == [i \in 1..Len(text) |-> Ord(text[i])]

(***************************************************************************)
(* Python dict helpers: a dict is a function plus its insertion order.     *)
(***************************************************************************)
EmptyDict == [k \in {} |-> None]

DictSet(d, k, v) == [x \in DOMAIN d \cup {k} |-> IF x = k THEN v ELSE d[x]]

DictDel(d, k) == [x \in DOMAIN d \ {k} |-> d[x]]

OrderSet(order, k) == IF k \in Range(order) THEN order ELSE Append(order, k)

OrderDel(order, k) == SelectSeq(order, LAMBDA x : x # k)

(***************************************************************************)
(* State.                                                                  *)
(***************************************************************************)
VARIABLES
  running,          \* self.running
  server_socket,    \* self.server_socket: 0 (None) or an index into listeners
  listeners,        \* the listening sockets created so far: "open" / "closed"
  clients,          \* self.clients: client id -> [socket, address, device_id, last_activity]
  clients_order,    \* insertion order of self.clients (dict iteration order)
  message_buffers,  \* self.message_buffers: client id -> bytes
  device_handlers,  \* self.device_handlers: device id -> set of message types with a handler
  socks,            \* accepted sockets: [address, open, peer, nrecv, nbytes, wire]
  acc,              \* _accept_connections threads: [pc, conn]
  hc,               \* _health_check_loop threads: [pc, inactive, wake]
  rd,               \* _handle_client_data threads: [pc, cid, sock, data, ord, msgs, pos, total,
                    \* own], own being the socket the thread was started for
  app,              \* the application thread calling start()/stop(): [pc, started, ret,
                    \* failed, listener_close_raised], the last two recording which
                    \* close() calls of the last stop() raised
  snd,              \* the application thread calling send_message
  now,              \* time.time()
  nticks,           \* clock advances so far
  trace,            \* what happened to every framed message, in order
  fed,              \* per receive buffer: the bytes appended to it since it was created
  out,              \* per receive buffer: the messages extracted from it since it was created
  last_remove       \* the last _remove_client call: its argument and what it left behind

vars == <<running, server_socket, listeners, clients, clients_order, message_buffers,
          device_handlers, socks, acc, hc, rd, app, snd, now, nticks, trace, fed, out,
          last_remove>>

\* __init__ (lines 20-38)
Init ==
  /\ running = FALSE
  /\ server_socket = 0
  /\ listeners = <<>>
  /\ clients = EmptyDict
  /\ clients_order = <<>>
  /\ message_buffers = EmptyDict
  /\ device_handlers = EmptyDict
  /\ socks = <<>>
  /\ acc = <<>>
  /\ hc = <<>>
  /\ rd = <<>>
  /\ app = [pc |-> "idle", started |-> 0, ret |-> None, failed |-> {},
            listener_close_raised |-> FALSE]
  /\ snd = [pc |-> "idle", device_id |-> None, command |-> <<>>, cid |-> None,
            sock |-> 0, ret |-> None, path |-> None, calls |-> 0, log |-> <<>>,
            left |-> [in_clients |-> FALSE, in_buffers |-> FALSE, sock_open |-> FALSE]]
  /\ now = 0
  /\ nticks = 0
  /\ trace = <<>>
  /\ fed = EmptyDict
  /\ out = EmptyDict
  /\ last_remove = [client_id |-> None, present |-> FALSE, close_raised |-> FALSE,
                    in_clients |-> FALSE, in_buffers |-> FALSE, changed |-> FALSE]

\* A _remove_client whose early return is taken after the buffer is dropped:
\* a call for an absent client id still deletes that id's receive buffer.
remove_client_drops_buffer(client_id, close_raises) ==
  /\ IF client_id \notin DOMAIN clients
     THEN /\ message_buffers' = DictDel(message_buffers, client_id)
          /\ fed' = DictDel(fed, client_id)
          /\ out' = DictDel(out, client_id)
          /\ UNCHANGED <<clients, clients_order, socks>>
     ELSE IF close_raises
     THEN UNCHANGED <<clients, clients_order, message_buffers, socks, fed, out>>
     ELSE /\ socks' = [socks EXCEPT ![clients[client_id].socket].open = FALSE]
          /\ clients' = DictDel(clients, client_id)
          /\ clients_order' = OrderDel(clients_order, client_id)
          /\ message_buffers' = DictDel(message_buffers, client_id)
          /\ fed' = DictDel(fed, client_id)
          /\ out' = DictDel(out, client_id)
  /\ last_remove' = [client_id |-> client_id,
                     present |-> client_id \in DOMAIN clients,
                     close_raised |-> client_id \in DOMAIN clients /\ close_raises,
                     in_clients |-> client_id \in DOMAIN clients',
                     in_buffers |-> client_id \in DOMAIN message_buffers',
                     changed |-> <<clients', clients_order', message_buffers', socks'>>
                                 # <<clients, clients_order, message_buffers, socks>>]

(***************************************************************************)
(* _remove_client (lines 404-423), one critical section.  close_raises is  *)
(* the outcome of socket.close(): when it raises, control jumps to the     *)
(* except clause and the two del statements are skipped.                   *)
(***************************************************************************)
remove_client(client_id, close_raises) ==
  /\ IF client_id \notin DOMAIN clients
     THEN UNCHANGED <<clients, clients_order, message_buffers, socks, fed, out>>
     ELSE IF close_raises
     THEN UNCHANGED <<clients, clients_order, message_buffers, socks, fed, out>>
     ELSE /\ socks' = [socks EXCEPT ![clients[client_id].socket].open = FALSE]
          /\ clients' = DictDel(clients, client_id)
          /\ clients_order' = OrderDel(clients_order, client_id)
          /\ message_buffers' = DictDel(message_buffers, client_id)
          /\ fed' = DictDel(fed, client_id)
          /\ out' = DictDel(out, client_id)
  /\ last_remove' = [client_id |-> client_id,
                     present |-> client_id \in DOMAIN clients,
                     close_raised |-> client_id \in DOMAIN clients /\ close_raises,
                     in_clients |-> client_id \in DOMAIN clients',
                     in_buffers |-> client_id \in DOMAIN message_buffers',
                     changed |-> <<clients', clients_order', message_buffers', socks'>>
                                 # <<clients, clients_order, message_buffers, socks>>]

\* _find_client_by_device (lines 426-433): the first client, in dict order,
\* whose device_id equals the argument; None when there is none.
RECURSIVE FirstMatch(_, _)
FirstMatch(order, device_id) ==
  IF order = <<>> THEN None
  ELSE IF clients[Head(order)].device_id = device_id THEN Head(order)
  ELSE FirstMatch(Tail(order), device_id)

\* A lookup that matches the canonical name of a connection's identity
\* instead of the identity itself.
find_client_by_mapped_device(device_id) ==
  LET hits == {i \in DOMAIN clients_order :
                 MappedDeviceId(clients[clients_order[i]].device_id) = device_id}
  IN IF hits = {} THEN None
     ELSE clients_order[CHOOSE i \in hits : \A j \in hits : i <= j]

find_client_by_device(device_id) == FirstMatch(clients_order, device_id)

\* the device_id of every connection, in dict order
DeviceIds == [i \in DOMAIN clients_order |-> clients[clients_order[i]].device_id]

\* get_connected_devices (lines 468-478): the truthy device ids, in dict order
get_connected_devices == SelectSeq(DeviceIds, LAMBDA d : d # None /\ d # "")

\* is_device_connected (lines 482-484)
is_device_connected(device_id) == find_client_by_device(device_id) # None

(***************************************************************************)
(* The framer: the while loop of _process_data (lines 202-215).            *)
(***************************************************************************)
\* index of the first b'\n' of a buffer that holds one
FirstNL(buffer) == CHOOSE i \in 1..Len(buffer) :
                     buffer[i] = NL /\ \A j \in 1..(i - 1) : buffer[j] # NL

RECURSIVE SplitLoop(_, _)
SplitLoop(buffer, messages) ==
  IF NL \in Range(buffer)
  THEN LET i == FirstNL(buffer)
           message == SubSeq(buffer, 1, i - 1)
           rest == SubSeq(buffer, i + 1, Len(buffer))
       IN SplitLoop(rest, IF message # <<>> THEN Append(messages, message) ELSE messages)
  ELSE [messages |-> messages, buffer |-> buffer]

\* (mutant) the residue of the earlier chunks is forgotten
process_data_frame_forgets(buffer, data) == SplitLoop(data, <<>>)

\* the buffer after appending data, framed: [messages, buffer]
process_data_frame(buffer, data) == SplitLoop(buffer \o data, <<>>)

(***************************************************************************)
(* The dispatcher: _process_message (lines 250-335).  The result is the    *)
(* sequence of handler calls the function makes when no handler raises:    *)
(* each call names the registration whose handler is called and the record *)
(* passed to it.  handler_called is "the sequence is not empty".           *)
(***************************************************************************)
HasHandler(handlers, device_id, message_type) ==
  device_id \in DOMAIN handlers /\ message_type \in handlers[device_id]

\* lines 286-292
LegacyType(message_type) ==
  CASE message_type = "E" -> "evt"
    [] message_type = "R" -> "res"
    [] message_type = "X" -> "err"
    [] OTHER -> None

\* (mutant) the raw tag is tried before the canonical id
process_message_raw_first(handlers, device_id, message_type, raw_device_id, content) ==
  LET plain == [device_type |-> raw_device_id, message_type |-> message_type,
                content |-> content]
  IN IF HasHandler(handlers, raw_device_id, message_type)
     THEN <<[key |-> <<raw_device_id, message_type>>, record |-> plain]>>
     ELSE IF HasHandler(handlers, device_id, message_type)
     THEN <<[key |-> <<device_id, message_type>>, record |-> plain]>>
     ELSE <<>>

process_message(handlers, device_id, message_type, raw_device_id, content) ==
  LET original_message == <<raw_device_id, message_type>> \o content
      plain == [device_type |-> raw_device_id, message_type |-> message_type,
                content |-> content]
      \* lines 259-269
      called1 == IF HasHandler(handlers, device_id, message_type)
                 THEN <<[key |-> <<device_id, message_type>>,
                         record |-> [device_type |-> raw_device_id,
                                     message_type |-> message_type,
                                     content |-> content,
                                     raw |-> original_message]]>>
                 ELSE <<>>
      \* lines 272-281
      called2 == IF called1 = <<>> /\ HasHandler(handlers, raw_device_id, message_type)
                 THEN Append(called1, [key |-> <<raw_device_id, message_type>>,
                                       record |-> plain])
                 ELSE called1
      legacy_type == LegacyType(message_type)
      \* lines 284-316
      called3 == IF called2 # <<>> THEN called2
                 ELSE IF legacy_type # None /\ HasHandler(handlers, device_id, legacy_type)
                 THEN <<[key |-> <<device_id, legacy_type>>, record |-> plain]>>
                 ELSE IF legacy_type # None
                         /\ HasHandler(handlers, raw_device_id, legacy_type)
                 THEN <<[key |-> <<raw_device_id, legacy_type>>, record |-> plain]>>
                 ELSE <<>>
  IN called3

\* register_device_handler (lines 395-401)
RegisterHandler(device_id, message_type) ==
  /\ device_handlers' =
       DictSet(device_handlers, device_id,
               (IF device_id \in DOMAIN device_handlers
                THEN device_handlers[device_id] ELSE {}) \cup {message_type})
  /\ UNCHANGED <<running, server_socket, listeners, clients, clients_order,
                 message_buffers, socks, acc, hc, rd, app, snd, now, nticks,
                 trace, fed, out, last_remove>>

(***************************************************************************)
(* start() (lines 42-69) and stop() (lines 72-93), called by the           *)
(* application thread.                                                     *)
(***************************************************************************)
\* A start() without the check of self.running: a call while running binds
\* a new listening socket and starts another acceptor and health check.
Start_again(bind_ok, max_starts) ==
  /\ app.pc = "idle"
  /\ IF running /\ Len(acc) >= 2
     THEN /\ app' = [app EXCEPT !.ret = "already_running"]
          /\ UNCHANGED <<running, server_socket, listeners, acc, hc>>
     ELSE /\ listeners' = Append(listeners, IF bind_ok THEN "open" ELSE "unbound")
          /\ server_socket' = Len(listeners) + 1
          /\ running' = bind_ok
          /\ acc' = IF bind_ok THEN Append(acc, [pc |-> "loop", conn |-> 0]) ELSE acc
          /\ hc' = IF bind_ok
                   THEN Append(hc, [pc |-> "loop", inactive |-> <<>>, wake |-> 0])
                   ELSE hc
          /\ app' = [app EXCEPT !.ret = IF bind_ok THEN "started" ELSE "failed",
                                !.started = IF bind_ok THEN @ + 1 ELSE @]
  /\ UNCHANGED <<clients, clients_order, message_buffers, device_handlers, socks, rd,
                 snd, now, nticks, trace, fed, out, last_remove>>

\* bind_ok: whether bind/listen succeed (the port may be taken);
\* max_starts: how many times the run may bind a listening socket.
Start(bind_ok, max_starts) ==
  /\ app.pc = "idle"
  /\ IF running
     THEN /\ app' = [app EXCEPT !.ret = "already_running"]
          /\ UNCHANGED <<running, server_socket, listeners, acc, hc>>
     ELSE /\ Len(listeners) < max_starts
          /\ listeners' = Append(listeners, IF bind_ok THEN "open" ELSE "unbound")
          /\ server_socket' = Len(listeners) + 1
          /\ running' = bind_ok
          /\ acc' = IF bind_ok THEN Append(acc, [pc |-> "loop", conn |-> 0]) ELSE acc
          /\ hc' = IF bind_ok
                   THEN Append(hc, [pc |-> "loop", inactive |-> <<>>, wake |-> 0])
                   ELSE hc
          /\ app' = [app EXCEPT !.ret = IF bind_ok THEN "started" ELSE "failed",
                                !.started = IF bind_ok THEN @ + 1 ELSE @]
  /\ UNCHANGED <<clients, clients_order, message_buffers, device_handlers, socks, rd,
                 snd, now, nticks, trace, fed, out, last_remove>>

\* line 73
StopFlag ==
  /\ app.pc = "idle"
  /\ running' = FALSE
  /\ app' = [app EXCEPT !.pc = "stop_clients", !.ret = None]
  /\ UNCHANGED <<server_socket, listeners, clients, clients_order, message_buffers,
                 device_handlers, socks, acc, hc, rd, snd, now, nticks, trace, fed, out,
                 last_remove>>

\* A stop() whose loop over the connections is left at the first
\* socket.close() that raises: no later socket is closed and the tables are
\* not cleared.
StopClients_aborts(failing) ==
  /\ app.pc = "stop_clients"
  /\ failing \subseteq DOMAIN clients
  /\ IF failing = {}
     THEN /\ socks' = [k \in DOMAIN socks |->
                        IF \E c \in DOMAIN clients : clients[c].socket = k
                        THEN [socks[k] EXCEPT !.open = FALSE] ELSE socks[k]]
          /\ clients' = EmptyDict
          /\ clients_order' = <<>>
          /\ message_buffers' = EmptyDict
          /\ fed' = EmptyDict
          /\ out' = EmptyDict
     ELSE UNCHANGED <<socks, clients, clients_order, message_buffers, fed, out>>
  /\ app' = [app EXCEPT !.pc = "stop_listener", !.failed = failing]
  /\ UNCHANGED <<running, server_socket, listeners, device_handlers, acc, hc, rd, snd,
                 now, nticks, trace, last_remove>>

\* lines 76-84, one critical section.  failing: the client ids whose
\* socket.close() raises (caught per socket, line 80).
StopClients(failing) ==
  /\ app.pc = "stop_clients"
  /\ failing \subseteq DOMAIN clients
  /\ socks' = [k \in DOMAIN socks |->
                 IF \E c \in DOMAIN clients \ failing : clients[c].socket = k
                 THEN [socks[k] EXCEPT !.open = FALSE] ELSE socks[k]]
  /\ clients' = EmptyDict
  /\ clients_order' = <<>>
  /\ message_buffers' = EmptyDict
  /\ fed' = EmptyDict
  /\ out' = EmptyDict
  /\ app' = [app EXCEPT !.pc = "stop_listener", !.failed = failing]
  /\ UNCHANGED <<running, server_socket, listeners, device_handlers, acc, hc, rd, snd,
                 now, nticks, trace, last_remove>>

\* lines 87-93.  close_raises: the outcome of server_socket.close().
StopListener(close_raises) ==
  /\ app.pc = "stop_listener"
  /\ listeners' = IF server_socket # 0 /\ ~close_raises
                  THEN [listeners EXCEPT ![server_socket] = "closed"]
                  ELSE listeners
  /\ app' = [app EXCEPT !.pc = "idle", !.ret = "stopped",
                         !.listener_close_raised = server_socket # 0 /\ close_raises]
  /\ UNCHANGED <<running, server_socket, clients, clients_order, message_buffers,
                 device_handlers, socks, acc, hc, rd, snd, now, nticks, trace, fed, out,
                 last_remove>>

(***************************************************************************)
(* _accept_connections (lines 96-134).                                     *)
(***************************************************************************)
\* The peer side of an address is free to connect when no connection it
\* opened earlier is still open at its end.
PeerFree(address) ==
  \A k \in DOMAIN socks : socks[k].address = address => ~socks[k].peer

\* lines 99-103: the loop test, and accept() returning a connection
AcceptReturn(a, address, max_socks) ==
  /\ acc[a].pc = "loop"
  /\ running
  /\ server_socket # 0
  /\ listeners[server_socket] = "open"
  /\ Len(socks) < max_socks
  /\ PeerFree(address)
  /\ socks' = Append(socks, [address |-> address, open |-> TRUE, peer |-> TRUE,
                             nrecv |-> 0, nbytes |-> 0, wire |-> <<>>])
  /\ acc' = [acc EXCEPT ![a] = [pc |-> "accepted", conn |-> Len(socks) + 1]]
  /\ UNCHANGED <<running, server_socket, listeners, clients, clients_order,
                 message_buffers, device_handlers, hc, rd, app, snd, now, nticks,
                 trace, fed, out, last_remove>>

\* lines 108-126: the critical section that registers the connection, and
\* the start of its reader thread
AcceptRegister(a) ==
  /\ acc[a].pc = "accepted"
  /\ LET address == socks[acc[a].conn].address
         client_id == ClientId(address)
         ip_address == address[1]
         device_id == IF ip_address \in DOMAIN auto_device_mapping
                      THEN auto_device_mapping[ip_address] ELSE None
     IN /\ clients' = DictSet(clients, client_id,
                              [socket |-> acc[a].conn, address |-> address,
                               device_id |-> device_id, last_activity |-> now])
        /\ clients_order' = OrderSet(clients_order, client_id)
        /\ message_buffers' = DictSet(message_buffers, client_id, <<>>)
        /\ fed' = DictSet(fed, client_id, <<>>)
        /\ out' = DictSet(out, client_id, <<>>)
        /\ rd' = Append(rd, [pc |-> "start", cid |-> client_id, sock |-> 0,
                             data |-> <<>>, ord |-> 0, msgs |-> <<>>, pos |-> 0,
                             total |-> 0, own |-> acc[a].conn])
  /\ acc' = [acc EXCEPT ![a].pc = "loop"]
  /\ UNCHANGED <<running, server_socket, listeners, device_handlers, socks, hc, app,
                 snd, now, nticks, trace, last_remove>>

\* line 99: the loop test failing
AcceptExit(a) ==
  /\ acc[a].pc = "loop"
  /\ ~running
  /\ acc' = [acc EXCEPT ![a].pc = "done"]
  /\ UNCHANGED <<running, server_socket, listeners, clients, clients_order,
                 message_buffers, device_handlers, socks, hc, rd, app, snd, now,
                 nticks, trace, fed, out, last_remove>>

\* The peer closes its end of a connection.
PeerClose(k) ==
  /\ socks[k].peer
  /\ socks' = [socks EXCEPT ![k].peer = FALSE]
  /\ UNCHANGED <<running, server_socket, listeners, clients, clients_order,
                 message_buffers, device_handlers, acc, hc, rd, app, snd, now,
                 nticks, trace, fed, out, last_remove>>

(***************************************************************************)
(* _handle_client_data (lines 137-192), the reader thread of a connection, *)
(* with _process_data (lines 195-247) inlined where it is called.          *)
(***************************************************************************)
\* lines 156-162: look the socket up by client id
RdStart(t) ==
  /\ rd[t].pc = "start"
  /\ rd' = [rd EXCEPT ![t] =
              IF rd[t].cid \in DOMAIN clients
              THEN [@ EXCEPT !.pc = "loop", !.sock = clients[rd[t].cid].socket]
              ELSE [@ EXCEPT !.pc = "final"]]
  /\ UNCHANGED <<running, server_socket, listeners, clients, clients_order,
                 message_buffers, device_handlers, socks, acc, hc, app, snd, now,
                 nticks, trace, fed, out, last_remove>>

\* lines 165-168: the loop test, and recv returning a chunk the peer sent
RdRecv(t, chunk, max_bytes) ==
  /\ rd[t].pc = "loop"
  /\ running
  /\ LET k == rd[t].sock
     IN /\ socks[k].open
        /\ socks[k].peer
        /\ chunk # <<>>
        /\ Len(chunk) <= RecvSize
        /\ socks[k].nbytes + Len(chunk) <= max_bytes
        /\ socks' = [socks EXCEPT ![k].nrecv = @ + 1, ![k].nbytes = @ + Len(chunk)]
        /\ rd' = [rd EXCEPT ![t].pc = "frame", ![t].data = chunk,
                            ![t].ord = socks[k].nrecv + 1]
  /\ UNCHANGED <<running, server_socket, listeners, clients, clients_order,
                 message_buffers, device_handlers, acc, hc, app, snd, now, nticks,
                 trace, fed, out, last_remove>>

\* lines 165-170, 180-185: the loop test failing, recv returning b'' (the
\* peer closed), or recv raising (the socket was closed under the reader)
RdBreak(t) ==
  /\ rd[t].pc = "loop"
  /\ ~(running /\ socks[rd[t].sock].open /\ socks[rd[t].sock].peer)
  /\ rd' = [rd EXCEPT ![t].pc = "final"]
  /\ UNCHANGED <<running, server_socket, listeners, clients, clients_order,
                 message_buffers, device_handlers, socks, acc, hc, app, snd, now,
                 nticks, trace, fed, out, last_remove>>

\* _process_data lines 198-215: one critical section
RdFrame(t) ==
  /\ rd[t].pc = "frame"
  /\ LET client_id == rd[t].cid
         known == client_id \in DOMAIN message_buffers
         buffer == IF known THEN message_buffers[client_id] ELSE <<>>
         r == process_data_frame(buffer, rd[t].data)
     IN /\ message_buffers' = DictSet(message_buffers, client_id, r.buffer)
        /\ fed' = DictSet(fed, client_id,
                          (IF known THEN fed[client_id] ELSE <<>>) \o rd[t].data)
        /\ out' = DictSet(out, client_id,
                          (IF known THEN out[client_id] ELSE <<>>) \o r.messages)
        /\ rd' = [rd EXCEPT ![t].pc = IF r.messages = <<>> THEN "touch" ELSE "msg",
                            ![t].data = <<>>,
                            ![t].msgs = r.messages,
                            ![t].pos = 0,
                            ![t].total = Len(r.messages)]
  /\ UNCHANGED <<running, server_socket, listeners, clients, clients_order,
                 device_handlers, socks, acc, hc, app, snd, now, nticks, trace,
                 last_remove>>

\* lines 221-230: decode and split one framed message
parse_message(message) ==
  LET d == Utf8Decode(message)
  IN IF ~d.ok THEN [outcome |-> "undecodable"]
     ELSE IF Len(d.text) < 2 THEN [outcome |-> "too_short"]
     ELSE [outcome |-> "parsed",
           device_type |-> d.text[1],
           message_type |-> d.text[2],
           message_content |-> SubSeq(d.text, 3, Len(d.text))]

\* (mutant) a later message's tag replaces the identity
register_device_overwrites(client_id, device_type) ==
  IF client_id \in DOMAIN clients
  THEN [clients EXCEPT ![client_id].device_id = device_type]
  ELSE clients

\* lines 236-241: the critical section that learns the connection's device
register_device(client_id, device_type) ==
  IF client_id \in DOMAIN clients /\ clients[client_id].device_id = None
  THEN [clients EXCEPT ![client_id].device_id = device_type]
  ELSE clients

\* (mutant) a protocol error ends the read loop
AfterProtocolError_breaks(rest) == "final"

\* Where the reader goes after a protocol error: `continue` (line 226) for a
\* line that is too short, the except clause of the for loop (line 246) for
\* one that does not decode; either way the for loop goes on.
AfterProtocolError(rest) == IF rest = <<>> THEN "touch" ELSE "msg"

\* (mutant) the handler's exception escapes to the read loop
AfterHandlerRaised_escapes(rest) == "final"

\* Where the reader goes when the handler it called raises: the exception
\* is caught in _process_message (line 334) and the for loop goes on.
AfterHandlerRaised(rest) == IF rest = <<>> THEN "touch" ELSE "msg"

\* lines 218-247: one iteration of the for loop over the framed messages.
\* handler_raises: whether the handler called, if one is, raises.
RdMessage(t, handler_raises) ==
  /\ rd[t].pc = "msg"
  /\ LET message == Head(rd[t].msgs)
         rest == Tail(rd[t].msgs)
         p == parse_message(message)
         at == [thread |-> t, sock |-> rd[t].sock, ord |-> rd[t].ord,
                pos |-> rd[t].pos + 1, line |-> message]
     IN IF p.outcome # "parsed"
        THEN /\ trace' = Append(trace, at @@ [outcome |-> p.outcome])
             /\ rd' = [rd EXCEPT ![t].msgs = rest, ![t].pos = @ + 1,
                                 ![t].pc = AfterProtocolError(rest)]
             /\ UNCHANGED clients
        ELSE LET calls == process_message(device_handlers,
                                          MappedDeviceId(p.device_type),
                                          p.message_type, p.device_type,
                                          p.message_content)
                 raised == calls # <<>> /\ handler_raises
             IN /\ clients' = register_device(rd[t].cid, p.device_type)
                /\ trace' = Append(trace,
                     at @@ [outcome |-> IF calls = <<>> THEN "no_handler"
                                        ELSE IF raised THEN "raised" ELSE "called",
                            calls |-> calls,
                            table |-> device_handlers])
                /\ rd' = [rd EXCEPT ![t].msgs = rest, ![t].pos = @ + 1,
                                    ![t].pc = IF raised
                                              THEN AfterHandlerRaised(rest)
                                              ELSE IF rest = <<>> THEN "touch" ELSE "msg"]
  /\ UNCHANGED <<running, server_socket, listeners, clients_order, message_buffers,
                 device_handlers, socks, acc, hc, app, snd, now, nticks, fed, out,
                 last_remove>>

\* lines 176-178: the critical section that refreshes last_activity
RdTouch(t) ==
  /\ rd[t].pc = "touch"
  /\ clients' = IF rd[t].cid \in DOMAIN clients
                THEN [clients EXCEPT ![rd[t].cid].last_activity = now]
                ELSE clients
  /\ rd' = [rd EXCEPT ![t].pc = "loop"]
  /\ UNCHANGED <<running, server_socket, listeners, clients_order, message_buffers,
                 device_handlers, socks, acc, hc, app, snd, now, nticks, trace, fed, out,
                 last_remove>>

\* lines 190-192: the finally clause
RdFinal(t, close_raises) ==
  /\ rd[t].pc = "final"
  /\ remove_client(rd[t].cid, close_raises)
  /\ rd' = [rd EXCEPT ![t].pc = "done"]
  /\ UNCHANGED <<running, server_socket, listeners, device_handlers, acc, hc, app,
                 snd, now, nticks, trace>>

(***************************************************************************)
(* send_message (lines 339-392), called by an application thread.          *)
(***************************************************************************)
\* A normalisation that appends the newline whatever the command ends with.
normalise_command_always_appends(command) == Append(command, "\n")

\* lines 376-378
normalise_command(command) ==
  IF command # <<>> /\ command[Len(command)] = "\n" THEN command
  ELSE Append(command, "\n")

\* lines 342-367: the lookup, and the failure return when it finds nothing
SendFind(device_id, command) ==
  /\ snd.pc = "idle"
  /\ snd.calls < MaxSends
  /\ LET client_id == find_client_by_device(device_id)
     IN snd' = [snd EXCEPT !.pc = IF client_id = None THEN "idle" ELSE "found",
                           !.device_id = device_id,
                           !.command = command,
                           !.cid = client_id,
                           !.sock = 0,
                           !.ret = IF client_id = None THEN "False" ELSE None,
                           !.path = IF client_id = None THEN "not_found" ELSE None,
                           !.calls = @ + 1]
  /\ UNCHANGED <<running, server_socket, listeners, clients, clients_order,
                 message_buffers, device_handlers, socks, acc, hc, rd, app, now,
                 nticks, trace, fed, out, last_remove>>

\* lines 370-387: the critical section that writes.  write_fails: whether
\* sendall raises; it cannot succeed on a socket already closed.
SendWrite(write_fails) ==
  /\ snd.pc = "found"
  /\ IF snd.cid \notin DOMAIN clients
     THEN /\ snd' = [snd EXCEPT !.pc = "idle", !.ret = "False", !.path = "gone"]
          /\ UNCHANGED <<clients, socks>>
     ELSE LET k == clients[snd.cid].socket
          IN IF write_fails
             THEN /\ snd' = [snd EXCEPT !.pc = "failed", !.sock = k]
                  /\ UNCHANGED <<clients, socks>>
             ELSE /\ socks[k].open
                  /\ socks' = [socks EXCEPT ![k].wire =
                                 @ \o Utf8Encode(normalise_command(snd.command))]
                  /\ clients' = [clients EXCEPT ![snd.cid].last_activity = now]
                  /\ snd' = [snd EXCEPT !.pc = "idle", !.sock = k, !.ret = "True",
                                        !.path = "sent",
                                        !.log = Append(@,
                                          [command |-> snd.command,
                                           bytes |-> Utf8Encode(
                                             normalise_command(snd.command))])]
  /\ UNCHANGED <<running, server_socket, listeners, clients_order, message_buffers,
                 device_handlers, acc, hc, rd, app, now, nticks, trace, fed, out,
                 last_remove>>

\* lines 389-392: the except clause.  The record keeps what the caller finds
\* when False is returned.
SendFailed(close_raises) ==
  /\ snd.pc = "failed"
  /\ remove_client(snd.cid, close_raises)
  /\ snd' = [snd EXCEPT !.pc = "idle", !.ret = "False", !.path = "write_failed",
                        !.left = [in_clients |-> snd.cid \in DOMAIN clients',
                                  in_buffers |-> snd.cid \in DOMAIN message_buffers',
                                  sock_open |-> socks'[snd.sock].open]]
  /\ UNCHANGED <<running, server_socket, listeners, device_handlers, acc, hc, rd, app,
                 now, nticks, trace>>

(***************************************************************************)
(* _health_check_loop (lines 436-447) and _cleanup_inactive_clients        *)
(* (lines 450-465).                                                        *)
(***************************************************************************)
\* lines 452-460: the scan, one critical section
InactiveClients(current_time) ==
  SelectSeq(clients_order,
            LAMBDA c : current_time - clients[c].last_activity > Timeout)

HcScan(h) ==
  /\ hc[h].pc = "loop"
  /\ running
  /\ LET inactive_clients == InactiveClients(now)
     IN hc' = [hc EXCEPT ![h] =
                 IF inactive_clients = <<>>
                 THEN [pc |-> "sleep", inactive |-> <<>>,
                       wake |-> now + health_check_interval]
                 ELSE [pc |-> "evict", inactive |-> inactive_clients, wake |-> 0]]
  /\ UNCHANGED <<running, server_socket, listeners, clients, clients_order,
                 message_buffers, device_handlers, socks, acc, rd, app, snd, now,
                 nticks, trace, fed, out, last_remove>>

\* lines 463-465: one iteration of the eviction loop
HcEvict(h, close_raises) ==
  /\ hc[h].pc = "evict"
  /\ remove_client(Head(hc[h].inactive), close_raises)
  /\ hc' = [hc EXCEPT ![h] =
              IF Tail(hc[h].inactive) = <<>>
              THEN [pc |-> "sleep", inactive |-> <<>>,
                    wake |-> now + health_check_interval]
              ELSE [@ EXCEPT !.inactive = Tail(@)]]
  /\ UNCHANGED <<running, server_socket, listeners, device_handlers, acc, rd, app,
                 snd, now, nticks, trace>>

\* line 444: time.sleep returns
HcWake(h) ==
  /\ hc[h].pc = "sleep"
  /\ now >= hc[h].wake
  /\ hc' = [hc EXCEPT ![h].pc = "loop"]
  /\ UNCHANGED <<running, server_socket, listeners, clients, clients_order,
                 message_buffers, device_handlers, socks, acc, rd, app, snd, now,
                 nticks, trace, fed, out, last_remove>>

\* line 438: the loop test failing
HcExit(h) ==
  /\ hc[h].pc = "loop"
  /\ ~running
  /\ hc' = [hc EXCEPT ![h].pc = "done"]
  /\ UNCHANGED <<running, server_socket, listeners, clients, clients_order,
                 message_buffers, device_handlers, socks, acc, rd, app, snd, now,
                 nticks, trace, fed, out, last_remove>>

\* time.time() advances
Tick(d) ==
  /\ nticks < MaxTicks
  /\ now' = now + d
  /\ nticks' = nticks + 1
  /\ UNCHANGED <<running, server_socket, listeners, clients, clients_order,
                 message_buffers, device_handlers, socks, acc, hc, rd, app, snd,
                 trace, fed, out, last_remove>>

(***************************************************************************)
(* Inputs.                                                                 *)
(***************************************************************************)
\* all byte strings of length 1..n over an alphabet
BytesUpTo(alphabet, n) == UNION {[1..m -> alphabet] : m \in 1..n}

\* how many more bytes the peer of reader t's socket may send
Room(t, max_bytes) ==
  IF rd[t].pc = "loop" THEN max_bytes - socks[rd[t].sock].nbytes ELSE 0

\* what recv may return in the full system: a whole line, or a piece of one
Chunks == {<<83, 69, 49, 10>>, <<83, 69>>, <<49, 10>>}

Devices == {"sort_controller", "S", "X"}
MessageTypes == {"E", "evt"}
Commands == {<<"C">>, <<"C", "\n">>}
TickSteps == {1, 600}

(***************************************************************************)
(* The whole system.                                                       *)
(***************************************************************************)
Next ==
  \/ \E ok \in BOOLEAN : Start(ok, MaxStarts)
  \/ StopFlag
  \/ \E f \in SUBSET DOMAIN clients : StopClients(f)
  \/ \E cr \in BOOLEAN : StopListener(cr)
  \/ \E a \in DOMAIN acc, address \in Addresses : AcceptReturn(a, address, MaxSocks)
  \/ \E a \in DOMAIN acc : AcceptRegister(a)
  \/ \E a \in DOMAIN acc : AcceptExit(a)
  \/ \E k \in DOMAIN socks : PeerClose(k)
  \/ \E t \in DOMAIN rd : RdStart(t)
  \/ \E t \in DOMAIN rd, chunk \in Chunks : RdRecv(t, chunk, MaxBytes)
  \/ \E t \in DOMAIN rd : RdBreak(t)
  \/ \E t \in DOMAIN rd : RdFrame(t)
  \/ \E t \in DOMAIN rd, hr \in BOOLEAN : RdMessage(t, hr)
  \/ \E t \in DOMAIN rd : RdTouch(t)
  \/ \E t \in DOMAIN rd, cr \in BOOLEAN : RdFinal(t, cr)
  \/ \E d \in Devices, m \in MessageTypes : RegisterHandler(d, m)
  \/ \E d \in Devices, c \in Commands : SendFind(d, c)
  \/ \E wf \in BOOLEAN : SendWrite(wf)
  \/ \E cr \in BOOLEAN : SendFailed(cr)
  \/ \E h \in DOMAIN hc : HcScan(h)
  \/ \E h \in DOMAIN hc, cr \in BOOLEAN : HcEvict(h, cr)
  \/ \E h \in DOMAIN hc : HcWake(h)
  \/ \E h \in DOMAIN hc : HcExit(h)
  \/ \E d \in TickSteps : Tick(d)

Spec == Init /\ [][Next]_vars

(***************************************************************************)
(* The framer and the parser on one connection (the acceptor admits one):  *)
(* every byte string over                                                  *)
(* FramerAlphabet of at most FramerBytes bytes, in every split into        *)
(* chunks.  The alphabet holds the newline, an ASCII letter, and the two   *)
(* bytes of a two-byte UTF-8 character, which alone do not decode.         *)
(***************************************************************************)
FramerBytes == 5
FramerAlphabet == {NL, 83, 195, 169}

NextFramer ==
  \/ Start(TRUE, MaxStarts)
  \/ \E a \in DOMAIN acc, address \in Addresses : AcceptReturn(a, address, 1)
  \/ \E a \in DOMAIN acc : AcceptRegister(a)
  \/ \E t \in DOMAIN rd : RdStart(t)
  \/ \E t \in DOMAIN rd :
       \E chunk \in BytesUpTo(FramerAlphabet, Room(t, FramerBytes)) :
         RdRecv(t, chunk, FramerBytes)
  \/ \E t \in DOMAIN rd : RdFrame(t)
  \/ \E t \in DOMAIN rd : RdMessage(t, FALSE)
  \/ \E t \in DOMAIN rd : RdTouch(t)

SpecFramer == Init /\ [][NextFramer]_vars

(***************************************************************************)
(* C1.  Splitting a stream on the newline byte, stated on the positions of *)
(* the newlines rather than as a loop.                                     *)
(***************************************************************************)
NewlinesOf(stream) == {i \in 1..Len(stream) : stream[i] = NL}

\* where the segment that ends just before position p starts
SegmentStart(stream, p) ==
  LET before == {i \in NewlinesOf(stream) : i < p}
  IN IF before = {} THEN 1
     ELSE 1 + CHOOSE i \in before : \A j \in before : j <= i

\* the non-empty newline-terminated segments, in order
ExpectedMessages(stream) ==
  LET ends == {p \in NewlinesOf(stream) : SegmentStart(stream, p) < p}
      nth(k) == CHOOSE p \in ends : Cardinality({q \in ends : q < p}) = k - 1
  IN [k \in 1..Cardinality(ends) |->
        SubSeq(stream, SegmentStart(stream, nth(k)), nth(k) - 1)]

\* the unterminated tail
ExpectedTail(stream) ==
  SubSeq(stream, SegmentStart(stream, Len(stream) + 1), Len(stream))

\* C1: for every receive buffer, the messages extracted from it, in order,
\* are the non-empty newline-terminated segments of the concatenation of the
\* chunks passed to _process_data, and the buffer holds the unterminated
\* tail, however the stream was cut into chunks.
C1_FramingIgnoresChunking ==
  \A c \in DOMAIN message_buffers :
    /\ out[c] = ExpectedMessages(fed[c])
    /\ message_buffers[c] = ExpectedTail(fed[c])

\* C1 witness: the line "S", 0xC3 arrived in two chunks (it is the first
\* message of the second chunk and the first chunk held no newline), was
\* extracted whole, and bytes after its newline wait in the buffer.
C1_Witness ==
  \E c \in DOMAIN message_buffers :
    /\ out[c] = <<(<<83, 195>>)>>
    /\ message_buffers[c] = <<83>>
    /\ \E i \in DOMAIN trace : trace[i].ord = 2 /\ trace[i].line = <<83, 195>>

(***************************************************************************)
(* C6.                                                                     *)
(***************************************************************************)
IsProtocolError(message) ==
  LET d == Utf8Decode(message) IN ~d.ok \/ Len(d.text) < 2

\* C6: a step of a reader on a framed line that does not decode, or decodes
\* to fewer than 2 characters, records the line as dropped (it is not handed
\* to _process_message), leaves the connection table and the buffers as they
\* are (no identity set, no connection removed), and leaves the reader in
\* its loops with the rest of the chunk's messages still to process.
C6_ProtocolErrorDropsOneMessage ==
  [][\A t \in DOMAIN rd :
       (rd[t].pc = "msg" /\ rd'[t] # rd[t] /\ IsProtocolError(Head(rd[t].msgs)))
       => /\ Len(trace') = Len(trace) + 1
          /\ trace'[Len(trace')].line = Head(rd[t].msgs)
          /\ trace'[Len(trace')].outcome \in {"undecodable", "too_short"}
          /\ clients' = clients
          /\ message_buffers' = message_buffers
          /\ rd'[t].msgs = Tail(rd[t].msgs)
          /\ rd'[t].pc = IF Tail(rd[t].msgs) = <<>> THEN "touch" ELSE "msg"]_vars

\* C6 witness: one chunk held the too-short line "S" and then the valid
\* line "SS"; the first was dropped, the second reached the dispatcher, and
\* the connection (not pre-registered) is still in the table with the
\* identity the valid line gave it.
C6_Witness ==
  /\ Len(trace) = 2
  /\ trace[1].outcome = "too_short" /\ trace[1].line = <<83>>
  /\ trace[2].outcome = "no_handler" /\ trace[2].line = <<83, 83>>
  /\ trace[2].ord = trace[1].ord /\ trace[2].pos = 2
  /\ \E c \in DOMAIN clients :
       /\ clients[c].socket = trace[2].sock
       /\ clients[c].address[1] \notin DOMAIN auto_device_mapping
       /\ clients[c].device_id = "S"

(***************************************************************************)
(* The parser, the device registry and the dispatcher on one connection    *)
(* (from the pre-registered host or from the other): whole lines with a    *)
(* mapped tag ("SE") and an unmapped one ("XE1"), one or two to a chunk,   *)
(* every registration table over Devices x MessageTypes, handlers that     *)
(* return or raise.                                                        *)
(***************************************************************************)
DispatchBytes == 7
DispatchChunks == {<<83, 69, 10>>, <<88, 69, 49, 10>>, <<83, 69, 10, 88, 69, 49, 10>>}

NextDispatch ==
  \/ Start(TRUE, MaxStarts)
  \/ \E a \in DOMAIN acc, address \in Addresses : AcceptReturn(a, address, 1)
  \/ \E a \in DOMAIN acc : AcceptRegister(a)
  \/ \E t \in DOMAIN rd : RdStart(t)
  \/ \E t \in DOMAIN rd, chunk \in DispatchChunks : RdRecv(t, chunk, DispatchBytes)
  \/ \E t \in DOMAIN rd : RdFrame(t)
  \/ \E t \in DOMAIN rd, hr \in BOOLEAN : RdMessage(t, hr)
  \/ \E t \in DOMAIN rd : RdTouch(t)
  \/ \E d \in Devices, m \in MessageTypes : RegisterHandler(d, m)

SpecDispatch == Init /\ [][NextDispatch]_vars

(***************************************************************************)
(* Two connections dispatching side by side (one from the pre-registered   *)
(* host, one not): the line "SE", once or twice in a chunk, and a handler   *)
(* registered under the canonical id of "S".                               *)
(***************************************************************************)
HandlersBytes == 9
HandlersChunks == {<<83, 69, 10>>, <<83, 69, 10, 83, 69, 10>>}

NextHandlers ==
  \/ Start(TRUE, MaxStarts)
  \/ \E a \in DOMAIN acc, address \in Addresses : AcceptReturn(a, address, 2)
  \/ \E a \in DOMAIN acc : AcceptRegister(a)
  \/ \E t \in DOMAIN rd : RdStart(t)
  \/ \E t \in DOMAIN rd, chunk \in HandlersChunks : RdRecv(t, chunk, HandlersBytes)
  \/ \E t \in DOMAIN rd : RdFrame(t)
  \/ \E t \in DOMAIN rd, hr \in BOOLEAN : RdMessage(t, hr)
  \/ \E t \in DOMAIN rd : RdTouch(t)
  \/ RegisterHandler("sort_controller", "E")

SpecHandlers == Init /\ [][NextHandlers]_vars

(***************************************************************************)
(* C2, C4, C5, C7.                                                         *)
(***************************************************************************)
ReachedDispatcher(e) == e.outcome \in {"called", "raised", "no_handler"}

\* the tag and the kind of a framed line that parsed
TagOf(line) == Utf8Decode(line).text[1]
KindOf(line) == Utf8Decode(line).text[2]

\* the registrations a message may be routed to, highest priority first
DispatchOrder(tag, kind) ==
  LET canonical == MappedDeviceId(tag)
      primary == <<(<<canonical, kind>>), (<<tag, kind>>)>>
  IN IF LegacyType(kind) = None THEN primary
     ELSE primary \o <<(<<canonical, LegacyType(kind)>>), (<<tag, LegacyType(kind)>>)>>

Registered(table, key) == key[1] \in DOMAIN table /\ key[2] \in table[key[1]]

\* C2: every message that reached the dispatcher was routed by the fixed
\* priority (canonical id, kind) > (raw tag, kind) > (canonical id, alias) >
\* (raw tag, alias), against the registration table of that moment: exactly
\* one handler was called, the first registered one in that order, and none
\* when no key of the order was registered.
C2_DispatchPriority ==
  \A i \in DOMAIN trace :
    ReachedDispatcher(trace[i]) =>
      LET e == trace[i]
          order == DispatchOrder(TagOf(e.line), KindOf(e.line))
          hits == {j \in DOMAIN order : Registered(e.table, order[j])}
      IN IF hits = {} THEN e.calls = <<>>
         ELSE /\ Len(e.calls) = 1
              /\ e.calls[1].key = order[CHOOSE j \in hits : \A h \in hits : j <= h]

\* C2 witness: a message "SE" found only the two legacy registrations and
\* went to the canonical one; a later "SE" found all four and went to
\* (canonical id, kind).
C2_Witness ==
  \E i, j \in DOMAIN trace :
    /\ i < j
    /\ DOMAIN trace[i].table = {"sort_controller", "S"}
    /\ trace[i].table["sort_controller"] = {"evt"}
    /\ trace[i].table["S"] = {"evt"}
    /\ trace[i].outcome = "called"
    /\ trace[i].calls[1].key = <<"sort_controller", "evt">>
    /\ trace[j].table["sort_controller"] = {"E", "evt"}
    /\ trace[j].table["S"] = {"E", "evt"}
    /\ trace[j].outcome = "called"
    /\ trace[j].calls[1].key = <<"sort_controller", "E">>

\* C4: a step never changes a non-null device_id of a connection that stays
\* in the table (the same client id holding the same socket).
C4_IdentityFirstWriterWins ==
  [][\A c \in DOMAIN clients :
       (clients[c].device_id # None /\ c \in DOMAIN clients'
        /\ clients'[c].socket = clients[c].socket)
       => clients'[c].device_id = clients[c].device_id]_vars

\* C4 witness: a connection that was not pre-registered sent "XE1" and then
\* "SE"; both reached the dispatcher and its identity is the first tag.
C4_Witness ==
  \E c \in DOMAIN clients : \E i, j \in DOMAIN trace :
    /\ clients[c].address[1] \notin DOMAIN auto_device_mapping
    /\ i < j
    /\ trace[i].sock = clients[c].socket /\ trace[j].sock = clients[c].socket
    /\ ReachedDispatcher(trace[i]) /\ TagOf(trace[i].line) = "X"
    /\ ReachedDispatcher(trace[j]) /\ TagOf(trace[j].line) = "S"
    /\ clients[c].device_id = "X"

\* C5: a message from a pre-registered connection is routed on its own tag:
\* every handler called for it is registered under the tag or the tag's
\* canonical id and is given the tag as device_type, and the connection, if
\* still in the table, keeps the pre-registered identity.
C5_PreRegisteredIdentityKept ==
  \A i \in DOMAIN trace :
    LET e == trace[i]
        ip == socks[e.sock].address[1]
    IN (ReachedDispatcher(e) /\ ip \in DOMAIN auto_device_mapping) =>
         /\ \A n \in DOMAIN e.calls :
              /\ e.calls[n].key[1] \in {TagOf(e.line), MappedDeviceId(TagOf(e.line))}
              /\ e.calls[n].record.device_type = TagOf(e.line)
         /\ \A c \in DOMAIN clients :
              clients[c].socket = e.sock => clients[c].device_id = auto_device_mapping[ip]

\* C5 witness: the connection pre-registered as "sort_controller" sent "XE1"
\* while handlers were registered for ("sort_controller", "E") and ("X", "E"):
\* the ("X", "E") handler was called with device_type "X", and the identity
\* is still "sort_controller".
C5_Witness ==
  \E i \in DOMAIN trace : \E c \in DOMAIN clients :
    /\ clients[c].socket = trace[i].sock
    /\ clients[c].address[1] \in DOMAIN auto_device_mapping
    /\ clients[c].device_id = "sort_controller"
    /\ trace[i].line = <<88, 69, 49>>
    /\ trace[i].outcome = "called"
    /\ Registered(trace[i].table, <<"sort_controller", "E">>)
    /\ trace[i].calls[1].key = <<"X", "E">>
    /\ trace[i].calls[1].record.device_type = "X"
    /\ trace[i].calls[1].record.content = <<"1">>

\* C7: a step in which a handler raises removes no connection, touches no
\* buffer and no socket, leaves every other reader where it was, and leaves
\* its own reader in its loops with the rest of the chunk still to process.
C7_HandlerFailureContained ==
  [][\A t \in DOMAIN rd :
       (rd[t].pc = "msg" /\ rd'[t] # rd[t]
        /\ trace'[Len(trace')].outcome = "raised")
       => /\ DOMAIN clients' = DOMAIN clients
          /\ \A c \in DOMAIN clients : clients'[c].socket = clients[c].socket
          /\ message_buffers' = message_buffers
          /\ socks' = socks
          /\ \A u \in DOMAIN rd \ {t} : rd'[u] = rd[u]
          /\ rd'[t].msgs = Tail(rd[t].msgs)
          /\ rd'[t].pc = IF Tail(rd[t].msgs) = <<>> THEN "touch" ELSE "msg"]_vars

\* C7 witness: a handler raised on the first message of a two-message chunk;
\* the second message of the chunk and a message of a later chunk of the
\* same connection were dispatched after it, in order; another connection
\* dispatched meanwhile; both connections are still in the table.
C7_Witness ==
  \E i, j, k, o \in DOMAIN trace :
    /\ i < j /\ j < k
    /\ trace[i].outcome = "raised" /\ trace[i].pos = 1
    /\ trace[j].outcome = "called" /\ trace[j].pos = 2
    /\ trace[j].sock = trace[i].sock /\ trace[j].ord = trace[i].ord
    /\ trace[k].sock = trace[i].sock /\ trace[k].ord > trace[i].ord
    /\ ReachedDispatcher(trace[k])
    /\ trace[o].sock # trace[i].sock /\ o > i /\ trace[o].outcome = "called"
    /\ \A n \in {i, o} : \E c \in DOMAIN clients : clients[c].socket = trace[n].sock

(***************************************************************************)
(* The acceptor and the readers side by side: two connections (a peer      *)
(* address may connect again once its earlier connection is closed at its  *)
(* end), peers that send the line "SE" and may close, and a handler that   *)
(* may be registered for it.                                               *)
(***************************************************************************)
ReadersBytes == 6
ReadersChunks == {<<83, 69, 10>>}

NextReaders ==
  \/ Start(TRUE, MaxStarts)
  \/ \E a \in DOMAIN acc, address \in Addresses : AcceptReturn(a, address, 2)
  \/ \E a \in DOMAIN acc : AcceptRegister(a)
  \/ \E k \in DOMAIN socks : PeerClose(k)
  \/ \E t \in DOMAIN rd : RdStart(t)
  \/ \E t \in DOMAIN rd, chunk \in ReadersChunks : RdRecv(t, chunk, ReadersBytes)
  \/ \E t \in DOMAIN rd : RdBreak(t)
  \/ \E t \in DOMAIN rd : RdFrame(t)
  \/ \E t \in DOMAIN rd : RdMessage(t, FALSE)
  \/ \E t \in DOMAIN rd : RdTouch(t)
  \/ \E t \in DOMAIN rd : RdFinal(t, FALSE)
  \/ RegisterHandler("sort_controller", "E")

SpecReaders == Init /\ [][NextReaders]_vars

\* C3: on one connection, handler calls happen in arrival order: of two
\* messages of the same socket that reached a handler, the one dispatched
\* first came from an earlier recv, or from the same recv at an earlier
\* position.
C3_ArrivalOrderDispatch ==
  \A i, j \in DOMAIN trace :
    (/\ i < j
     /\ trace[i].sock = trace[j].sock
     /\ trace[i].outcome \in {"called", "raised"}
     /\ trace[j].outcome \in {"called", "raised"})
    => \/ trace[i].ord < trace[j].ord
       \/ trace[i].ord = trace[j].ord /\ trace[i].pos < trace[j].pos

\* C19: a reader evicts and feeds only the connection it was started for:
\* its final _remove_client leaves every connection with another socket in
\* the table with its socket as it was, and its _process_data leaves the
\* buffer of such a connection as it was.
C19_ReaderTouchesOnlyOwnConnection ==
  [][\A t \in DOMAIN rd : \A c \in DOMAIN clients :
       clients[c].socket # rd[t].own
       => /\ (rd[t].pc = "final" /\ rd'[t].pc = "done")
             => /\ c \in DOMAIN clients'
                /\ socks'[clients[c].socket].open = socks[clients[c].socket].open
          /\ (rd[t].pc = "frame" /\ rd'[t].pc # "frame")
             => message_buffers'[c] = message_buffers[c]]_vars

(***************************************************************************)
(* Eviction by its three callers on one connection (from either host): its *)
(* reader (the peer sends one line and may close), the health check with   *)
(* the clock, and send_message calls; socket.close() and sendall may raise.*)
(***************************************************************************)
EvictBytes == 3

NextEvict ==
  \/ Start(TRUE, MaxStarts)
  \/ \E a \in DOMAIN acc, address \in Addresses : AcceptReturn(a, address, 1)
  \/ \E a \in DOMAIN acc : AcceptRegister(a)
  \/ \E k \in DOMAIN socks : PeerClose(k)
  \/ \E t \in DOMAIN rd : RdStart(t)
  \/ \E t \in DOMAIN rd, chunk \in ReadersChunks : RdRecv(t, chunk, EvictBytes)
  \/ \E t \in DOMAIN rd : RdBreak(t)
  \/ \E t \in DOMAIN rd : RdFrame(t)
  \/ \E t \in DOMAIN rd : RdMessage(t, FALSE)
  \/ \E t \in DOMAIN rd : RdTouch(t)
  \/ \E t \in DOMAIN rd, cr \in BOOLEAN : RdFinal(t, cr)
  \/ \E d \in {"sort_controller", "S"}, c \in Commands : SendFind(d, c)
  \/ \E wf \in BOOLEAN : SendWrite(wf)
  \/ \E cr \in BOOLEAN : SendFailed(cr)
  \/ \E h \in DOMAIN hc : HcScan(h)
  \/ \E h \in DOMAIN hc, cr \in BOOLEAN : HcEvict(h, cr)
  \/ \E h \in DOMAIN hc : HcWake(h)
  \/ \E d \in TickSteps : Tick(d)

SpecEvict == Init /\ [][NextEvict]_vars

\* C8: a _remove_client call for a present client id leaves the id in
\* neither self.clients nor self.message_buffers, whatever socket.close()
\* did.
C8_EvictionRemovesWhateverCloseDoes ==
  (last_remove.client_id # None /\ last_remove.present)
  => ~last_remove.in_clients /\ ~last_remove.in_buffers

\* C9: a _remove_client call for a client id that is absent from
\* self.clients changes neither the connection table, nor the buffers, nor
\* the sockets.
C9_EvictionIdempotent ==
  (last_remove.client_id # None /\ ~last_remove.present) => ~last_remove.changed

\* C9 witness: the last _remove_client call was for a client id already
\* evicted by another caller, whose reader had put a receive buffer back
\* meanwhile; the call left that buffer where it was, and the socket closed.
C9_Witness ==
  /\ last_remove.client_id # None
  /\ ~last_remove.present
  /\ last_remove.in_buffers
  /\ last_remove.client_id \notin DOMAIN clients
  /\ last_remove.client_id \in DOMAIN message_buffers
  /\ \E k \in DOMAIN socks : ~socks[k].open

\* C10: when send_message returns False after a failed write, the
\* connection it wrote to is in neither table and its socket is closed.
C10_FailedSendEvicts ==
  snd.path = "write_failed"
  => ~snd.left.in_clients /\ ~snd.left.in_buffers /\ ~snd.left.sock_open

\* C11: a send_message call that finds no connection whose identity is the
\* device id returns False at once and leaves the connection table (the
\* last-activity times with it), the buffers and the sockets as they were.
C11_SendToUnknownDevice ==
  [][(/\ snd.pc = "idle"
      /\ snd'.calls = snd.calls + 1
      /\ \A c \in DOMAIN clients : clients[c].device_id # snd'.device_id)
     => /\ snd'.pc = "idle"
        /\ snd'.ret = "False"
        /\ clients' = clients
        /\ clients_order' = clients_order
        /\ message_buffers' = message_buffers
        /\ socks' = socks]_vars

\* C11 witness: send_message("sort_controller", ...) returned False while
\* the only connection of the table carried identity "S", the raw tag of
\* its first message; nothing was written to its socket.
C11_Witness ==
  /\ snd.path = "not_found"
  /\ snd.ret = "False"
  /\ snd.device_id = "sort_controller"
  /\ \E c \in DOMAIN clients :
       /\ clients[c].device_id = "S"
       /\ socks[clients[c].socket].wire = <<>>

\* the command without its trailing newline, when it has one
StripNewline(command) ==
  IF command # <<>> /\ command[Len(command)] = "\n"
  THEN SubSeq(command, 1, Len(command) - 1) ELSE command

\* C12: the bytes of every successful send are the UTF-8 bytes of the
\* command without its trailing newline followed by one newline, so that
\* c and c + newline are written as the same bytes, ending with exactly
\* one newline.
C12_TerminatorNormalised ==
  \A i \in DOMAIN snd.log :
    LET c == snd.log[i].command
        b == snd.log[i].bytes
    IN /\ b = Utf8Encode(StripNewline(c)) \o <<NL>>
       /\ b[Len(b)] = NL
       /\ Len(b) > 1 => b[Len(b) - 1] # NL
       /\ \A j \in DOMAIN snd.log :
            StripNewline(snd.log[j].command) = StripNewline(c)
            => snd.log[j].bytes = b

\* C12 witness: "C" and "C\n" were both sent, and the socket received the
\* same two bytes, 'C' and the newline, for each.
C12_Witness ==
  \E i, j \in DOMAIN snd.log : \E k \in DOMAIN socks :
    /\ snd.log[i].command = <<"C">>
    /\ snd.log[j].command = <<"C", "\n">>
    /\ snd.log[i].bytes = <<67, NL>>
    /\ snd.log[j].bytes = <<67, NL>>
    /\ socks[k].wire = <<67, NL, 67, NL>>

\* C13: a cycle of the sweeper selects exactly the connections idle for more
\* than 600 (so none idle for 600 or less), and every connection it selected
\* is out of the connection table once the sweeper has evicted it.
C13_SweeperEvictsIdle ==
  [][\A h \in DOMAIN hc :
       /\ (hc[h].pc = "loop" /\ hc'[h].pc \in {"evict", "sleep"})
          => Range(hc'[h].inactive) =
               {c \in DOMAIN clients : now - clients[c].last_activity > 600}
       /\ (hc[h].pc = "evict" /\ hc'[h] # hc[h])
          => /\ Head(hc[h].inactive) \notin DOMAIN clients'
             /\ DOMAIN clients \ {Head(hc[h].inactive)} \subseteq DOMAIN clients']_vars

(***************************************************************************)
(* The lifecycle: start() and stop() called by the application while the   *)
(* acceptor admits up to two connections, their readers receive the line  *)
(* "SE", and the health check scans; bind and the close() calls of stop()  *)
(* may fail.                                                               *)
(***************************************************************************)
StopBytes == 3

NextStop ==
  \/ \E ok \in BOOLEAN : Start(ok, MaxStarts)
  \/ StopFlag
  \/ \E f \in SUBSET DOMAIN clients : StopClients(f)
  \/ \E cr \in BOOLEAN : StopListener(cr)
  \/ \E a \in DOMAIN acc, address \in Addresses : AcceptReturn(a, address, 2)
  \/ \E a \in DOMAIN acc : AcceptRegister(a)
  \/ \E a \in DOMAIN acc : AcceptExit(a)
  \/ \E t \in DOMAIN rd : RdStart(t)
  \/ \E t \in DOMAIN rd, chunk \in ReadersChunks : RdRecv(t, chunk, StopBytes)
  \/ \E t \in DOMAIN rd : RdBreak(t)
  \/ \E t \in DOMAIN rd : RdFrame(t)
  \/ \E t \in DOMAIN rd : RdMessage(t, FALSE)
  \/ \E t \in DOMAIN rd : RdTouch(t)
  \/ \E t \in DOMAIN rd : RdFinal(t, FALSE)
  \/ \E h \in DOMAIN hc : HcScan(h)
  \/ \E h \in DOMAIN hc : HcExit(h)

SpecStop == Init /\ [][NextStop]_vars

(***************************************************************************)
(* The lifecycle alone: the same, with peers that send nothing, so that    *)
(* the readers only start, find the server stopped or their socket closed, *)
(* and evict.                                                              *)
(***************************************************************************)
NextLifecycle ==
  \/ \E ok \in BOOLEAN : Start(ok, MaxStarts)
  \/ StopFlag
  \/ \E f \in SUBSET DOMAIN clients : StopClients(f)
  \/ \E cr \in BOOLEAN : StopListener(cr)
  \/ \E a \in DOMAIN acc, address \in Addresses : AcceptReturn(a, address, 2)
  \/ \E a \in DOMAIN acc : AcceptRegister(a)
  \/ \E a \in DOMAIN acc : AcceptExit(a)
  \/ \E t \in DOMAIN rd : RdStart(t)
  \/ \E t \in DOMAIN rd : RdBreak(t)
  \/ \E t \in DOMAIN rd : RdFinal(t, FALSE)
  \/ \E h \in DOMAIN hc : HcScan(h)
  \/ \E h \in DOMAIN hc : HcExit(h)

SpecLifecycle == Init /\ [][NextLifecycle]_vars

\* C14: the critical section of stop() runs with the running flag down,
\* closes the socket of every connection of the table whose close() does
\* not raise, whatever the other close() calls do, and leaves both tables
\* empty; stop() then closes the listening socket unless that close()
\* raises, and returns with the flag still down.
C14_StopClosesAndClears ==
  [][/\ (app.pc = "stop_clients" /\ app'.pc = "stop_listener")
        => /\ ~running'
           /\ \A c \in DOMAIN clients :
                c \notin app'.failed => ~socks'[clients[c].socket].open
           /\ clients' = EmptyDict
           /\ clients_order' = <<>>
           /\ message_buffers' = EmptyDict
     /\ (app.pc = "stop_listener" /\ app'.pc = "idle")
        => /\ ~running'
           /\ app'.ret = "stopped"
           /\ (server_socket # 0 /\ ~app'.listener_close_raised)
              => listeners'[server_socket] = "closed"]_vars

\* C14 witness: stop() returned after the close() of one of two registered
\* connections raised: the other connection's socket is closed, both tables
\* are empty, the listening socket is closed and the flag is down.
C14_Witness ==
  /\ app.pc = "idle"
  /\ app.ret = "stopped"
  /\ Cardinality(app.failed) = 1
  /\ Len(socks) = 2
  /\ \E k \in DOMAIN socks : socks[k].open /\ ClientId(socks[k].address) \in app.failed
  /\ \E k \in DOMAIN socks :
       ~socks[k].open /\ ClientId(socks[k].address) \notin app.failed
  /\ clients = EmptyDict
  /\ message_buffers = EmptyDict
  /\ ~running
  /\ listeners[server_socket] = "closed"

\* C15: a start() call made while the server is running reports that it is
\* already running and changes nothing: not the running flag, not the
\* listening socket, not the acceptor and health-check threads, not the
\* connection table.
C15_StartIdempotent ==
  [][(app.pc = "idle" /\ running /\ app'.pc = "idle" /\ app' # app)
     => /\ app'.ret = "already_running"
        /\ running' = running
        /\ server_socket' = server_socket
        /\ listeners' = listeners
        /\ acc' = acc
        /\ hc' = hc
        /\ clients' = clients
        /\ message_buffers' = message_buffers
        /\ socks' = socks]_vars

\* C15 witness: start() was called again while the server was running with
\* a connection registered: it reported already-running, and there is one
\* listening socket, one acceptor and one health check.
C15_Witness ==
  /\ app.pc = "idle"
  /\ app.ret = "already_running"
  /\ app.started = 1
  /\ running
  /\ listeners = <<"open">>
  /\ Len(acc) = 1
  /\ Len(hc) = 1
  /\ clients # EmptyDict

(***************************************************************************)
(* The queries beside everything that changes an identity: two             *)
(* connections (a peer address may connect again), readers receiving lines *)
(* tagged S and X, peers that close, and the readers' evictions.           *)
(***************************************************************************)
QueryBytes == 7

NextQuery ==
  \/ Start(TRUE, MaxStarts)
  \/ \E a \in DOMAIN acc, address \in Addresses : AcceptReturn(a, address, 2)
  \/ \E a \in DOMAIN acc : AcceptRegister(a)
  \/ \E k \in DOMAIN socks : PeerClose(k)
  \/ \E t \in DOMAIN rd : RdStart(t)
  \/ \E t \in DOMAIN rd, chunk \in DispatchChunks : RdRecv(t, chunk, QueryBytes)
  \/ \E t \in DOMAIN rd : RdBreak(t)
  \/ \E t \in DOMAIN rd : RdFrame(t)
  \/ \E t \in DOMAIN rd : RdMessage(t, FALSE)
  \/ \E t \in DOMAIN rd : RdTouch(t)
  \/ \E t \in DOMAIN rd : RdFinal(t, FALSE)

SpecQuery == Init /\ [][NextQuery]_vars

\* the identities carried by the connections of the table
ResolvedIdentities == {clients[c].device_id : c \in DOMAIN clients} \ {None}

\* the trace entries of the valid messages received on socket k
ValidOn(k) == {i \in DOMAIN trace : trace[i].sock = k /\ ReachedDispatcher(trace[i])}

\* the queries agree with the table, with each other and with the lookup
\* of send_message
QueriesAgree ==
  /\ \A d \in Devices :
       /\ is_device_connected(d) <=> d \in ResolvedIdentities
       /\ is_device_connected(d) <=> d \in Range(get_connected_devices)
       /\ is_device_connected(d) <=> find_client_by_device(d) # None
  /\ Range(get_connected_devices) = ResolvedIdentities
  /\ Len(get_connected_devices) =
       Cardinality({c \in DOMAIN clients : clients[c].device_id # None})

\* a connection that was not pre-registered has no identity before its
\* first valid message and the raw tag of that message after it
RawTagOfFirstMessage ==
  \A c \in DOMAIN clients :
    clients[c].address[1] \notin DOMAIN auto_device_mapping
    => LET valid == ValidOn(clients[c].socket)
       IN IF valid = {} THEN clients[c].device_id = None
          ELSE clients[c].device_id =
                 TagOf(trace[CHOOSE i \in valid : \A j \in valid : i <= j].line)

\* C16: in every state the two queries report exactly the identities of the
\* connection table, agreeing with each other and with send_message's
\* lookup, and a connection that was not pre-registered is reported under
\* the raw tag of its first valid message.
C16_QueriesConsistent == QueriesAgree /\ RawTagOfFirstMessage

\* C17: the receive-buffer table holds buffers only for connections of the
\* connection table.
C17_BuffersOnlyForClients == DOMAIN message_buffers \subseteq DOMAIN clients

\* C18: when the last lifecycle call was a stop() that has returned, the
\* connection table is empty.
C18_EmptyAfterStop ==
  (app.pc = "idle" /\ app.ret = "stopped") => clients = EmptyDict

\* C20: the sweeper removes no connection that is not idle at the moment of
\* the eviction: an eviction step of the sweeper leaves a connection whose
\* last activity is at most 600 old in the table.
C20_SweeperSparesRefreshed ==
  [][\A h \in DOMAIN hc :
       (hc[h].pc = "evict" /\ hc'[h] # hc[h])
       => LET c == Head(hc[h].inactive)
          IN (c \in DOMAIN clients /\ now - clients[c].last_activity <= 600)
             => c \in DOMAIN clients']_vars

(***************************************************************************)
(* Restarts: the application starts, stops and starts the server again     *)
(* while the acceptor admits one connection, its reader starts and evicts, *)
(* the health check scans and sleeps, and the clock advances by the health *)
(* check's interval.                                                       *)
(***************************************************************************)
RestartStarts == 2

NextRestart ==
  \/ Start(TRUE, RestartStarts)
  \/ StopFlag
  \/ \E f \in SUBSET DOMAIN clients : StopClients(f)
  \/ StopListener(FALSE)
  \/ \E a \in DOMAIN acc, address \in Addresses : AcceptReturn(a, address, 1)
  \/ \E a \in DOMAIN acc : AcceptRegister(a)
  \/ \E a \in DOMAIN acc : AcceptExit(a)
  \/ \E t \in DOMAIN rd : RdStart(t)
  \/ \E t \in DOMAIN rd : RdBreak(t)
  \/ \E t \in DOMAIN rd : RdFinal(t, FALSE)
  \/ \E h \in DOMAIN hc : HcScan(h)
  \/ \E h \in DOMAIN hc : HcWake(h)
  \/ \E h \in DOMAIN hc : HcExit(h)
  \/ Tick(health_check_interval)

SpecRestart == Init /\ [][NextRestart]_vars

\* C21: the acceptor and the health check started by an earlier start()
\* never go round their loops again once a later start() has started its
\* own: only the newest acceptor accepts and only the newest health check
\* scans, so that at most one of each is at work.
C21_OldTasksNeverResume ==
  [][/\ \A a \in DOMAIN acc :
          (a < Len(acc) /\ acc[a].pc = "loop") => acc'[a].pc \in {"loop", "done"}
     /\ \A h \in DOMAIN hc :
          (h < Len(hc) /\ hc[h].pc = "loop") => hc'[h].pc \in {"loop", "done"}]_vars

====
